---- MODULE Spec2Model ----
(***************************************************************************)
(* A model of erpnext_chatgpt/erpnext_chatgpt/api.py: the token estimator, *)
(* the conversation trimmer, the tool dispatcher and the orchestrator      *)
(* ask_openai_question, with the tool registry of tools.py.                *)
(*                                                                         *)
(* A message is a record.  Its content is NoContent (Python None / key     *)
(* absent) or Text(w), a string of w whitespace-separated words: the only  *)
(* thing the code ever reads of a content is len(str(content).split()).    *)
(***************************************************************************)
EXTENDS Integers, Sequences, FiniteSets, TLC

\* ---------------------------------------------------------------- bounds
MaxLen == 3      \* messages in a conversation handed to the trimmer alone
MaxConv == 2     \* messages in a conversation handed to ask_openai_question
MaxLimit == 9    \* token limits 1..MaxLimit
MaxCalls == 2    \* tool calls in one model reply
MaxIters == MaxLen + 2   \* the iteration counter saturates here

\* ------------------------------------------------------------- constants
tokens_per_message == 4
\* tokens_per_word = 1.5, kept exact as the fraction 3/2
tokens_per_word_num == 3
tokens_per_word_den == 2

\* -------------------------------------------------------------- messages
NoContent == <<>>
Text(w) == <<w>>
WordCounts == {0, 1, 3}
Contents == {NoContent} \cup {Text(w) : w \in WordCounts}

NoToolCalls == <<>>

Msg(role, content) ==
    [role |-> role, content |-> content, tool_call_id |-> "", name |-> "",
     tool_calls |-> NoToolCalls]

CallerMessages(roles) == {Msg(r, c) : r \in roles, c \in Contents}

SeqsUpTo(S, n) == UNION {[1..k -> S] : k \in 0..n}

\* ---------------------------------------------------------- tool registry
available_functions ==
    {"get_sales_invoices", "get_sales_invoice", "list_invoices", "get_employees",
     "get_purchase_orders", "get_customers", "list_customers", "get_stock_levels",
     "get_general_ledger_entries", "get_profit_and_loss_statement",
     "get_outstanding_invoices", "get_sales_orders", "list_quotations",
     "list_sales_orders", "list_delivery_notes", "get_delivery_note",
     "get_purchase_invoices", "get_journal_entries", "get_payments",
     "list_service_protocols", "get_service_protocol"}

\* mutant: a tool is implemented and registered but left out of get_tools()
get_tools_MissingOne ==
    <<"get_sales_invoices", "get_sales_invoice", "list_invoices", "get_employees",
      "get_purchase_orders", "get_customers", "list_customers", "get_stock_levels",
      "get_general_ledger_entries", "get_profit_and_loss_statement",
      "get_outstanding_invoices", "get_sales_orders", "list_quotations",
      "list_sales_orders", "list_delivery_notes", "get_delivery_note",
      "get_purchase_invoices", "get_journal_entries", "get_payments",
      "list_service_protocols">>

\* the names of the tool definitions get_tools() returns, in its order
get_tools ==
    <<"get_sales_invoices", "get_sales_invoice", "list_invoices", "get_employees",
      "get_purchase_orders", "get_customers", "list_customers", "get_stock_levels",
      "get_general_ledger_entries", "get_profit_and_loss_statement",
      "get_outstanding_invoices", "get_sales_orders", "list_quotations",
      "list_sales_orders", "list_delivery_notes", "get_delivery_note",
      "get_purchase_invoices", "get_journal_entries", "get_payments",
      "list_service_protocols", "get_service_protocol">>

\* tools.py as imported: what the module globals hold at process start
ImportedRegistry == [functions |-> available_functions, tools |-> get_tools]

\* no tools argument / no tool_choice argument
NoTools == <<>>
NoToolChoice == ""

\* -------------------------------------------------------------- settings
\* a field of OpenAI Settings that holds nothing: get_single_value gives a value
\* that is false in a condition (None, the empty string, 0)
NotSet == ""
MaxTokensNotSet == 0
default_model == "gpt-3.5-turbo"
default_max_tokens == 8000

\* mutant: the defaults are taken together, when either value is unset
get_model_settings_DefaultsTogether(stored) ==
    IF stored.model = NotSet \/ stored.max_tokens = MaxTokensNotSet
    THEN [model |-> default_model, max_tokens |-> default_max_tokens]
    ELSE [model |-> stored.model, max_tokens |-> stored.max_tokens]

\* get_model_settings() on the stored settings: (model, max_tokens)
get_model_settings(stored) ==
    [model |-> IF stored.model = NotSet THEN default_model ELSE stored.model,
     max_tokens |-> IF stored.max_tokens = MaxTokensNotSet
                    THEN default_max_tokens
                    ELSE stored.max_tokens]

\* ------------------------------------------------------------- estimator
\* len(str(content).split()) of a content that is not None
word_count(content) == content[1]

\* int(n * 1.5): n >= 0, so truncation is the floor of 3n/2
int_times_tokens_per_word(n) == (n * tokens_per_word_num) \div tokens_per_word_den

message_tokens(m) ==
    IF m.content # NoContent
    THEN tokens_per_message + int_times_tokens_per_word(word_count(m.content))
    ELSE 0

RECURSIVE estimate_token_count(_)
estimate_token_count(messages) ==
    IF messages = <<>> THEN 0
    ELSE message_tokens(Head(messages)) + estimate_token_count(Tail(messages))

\* --------------------------------------------------------------- trimmer
IsSystem(m) == m.role = "system"

\* mutant: the loop stops at two messages instead of one
TrimLoopCond_StopsAtTwo(conv, limit) ==
    estimate_token_count(conv) > limit /\ Len(conv) > 2

\* mutant: the loop has no guard on the length
TrimLoopCond_NoLengthGuard(conv, limit) ==
    estimate_token_count(conv) > limit

\* mutant: the loop also runs when the estimate equals the limit
TrimLoopCond_AtOrOver(conv, limit) ==
    estimate_token_count(conv) >= limit /\ Len(conv) > 1

\* the while condition of trim_conversation_to_token_limit
TrimLoopCond(conv, limit) ==
    estimate_token_count(conv) > limit /\ Len(conv) > 1

\* del conversation[i]
DelAt(conv, i) == [j \in 1..(Len(conv) - 1) |-> IF j < i THEN conv[j] ELSE conv[j + 1]]

\* mutant: delete the oldest message whatever its role
RemoveOldest(conv) == IF conv # <<>> THEN DelAt(conv, 1) ELSE conv

\* mutant: delete the newest non-system message
RemoveNewestNonSystem(conv) ==
    IF \E i \in 1..Len(conv) : conv[i].role # "system"
    THEN DelAt(conv, CHOOSE i \in 1..Len(conv) :
                   /\ conv[i].role # "system"
                   /\ \A j \in (i + 1)..Len(conv) : conv[j].role = "system")
    ELSE conv

\* the for loop: delete the first message whose role is not system and break;
\* when there is none the loop runs off the end and nothing is deleted
RemoveOldestNonSystem(conv) ==
    IF \E i \in 1..Len(conv) : ~IsSystem(conv[i])
    THEN DelAt(conv, CHOOSE i \in 1..Len(conv) :
                   /\ ~IsSystem(conv[i])
                   /\ \A j \in 1..(i - 1) : IsSystem(conv[j]))
    ELSE conv

VARIABLES
    pc,              \* where the running call stands
    conversation,    \* the list object the caller passed, mutated in place
    token_limit,     \* max_tokens of the settings / the token_limit argument
    api_key,         \* whether OpenAI Settings holds an api_key
    entry,           \* the conversation as it was when the running function was entered
    iters,           \* iterations of the trimmer's while loop since entry (saturating)
    tool_calls,      \* response_message.tool_calls of the first reply
    k,               \* index of the tool call the dispatcher is at
    tool_usage_log,  \* the usage log
    invoked,         \* ids of the tool calls whose function was invoked, in order
    sent,            \* the requests made to the model client, in order
    exc,             \* the exception raised inside the try block, if any
    result,          \* what ask_openai_question returned
    registry,        \* the module globals of tools.py: available_functions' keys, get_tools()' names
    given,           \* the conversation as the caller passed it
    replies,         \* the replies the model client gave, in order
    running,         \* which of two concurrent calls the variables above belong to
    other,           \* the local state of the other call, which is not executing now
    logged,          \* what the call has written with frappe.log_error, in order
    settings         \* the stored OpenAI Settings: model and max_tokens

vars == <<pc, conversation, token_limit, api_key, settings, entry, iters, tool_calls, k,
          tool_usage_log, invoked, sent, exc, result, registry, given, replies,
          running, other, logged, settings>>

NoExc == <<>>
NoResult == [kind |-> "none", error |-> NoExc, content |-> NoContent, tool_usage |-> <<>>]

\* there is one call only
NoOtherCall == [pc |-> "absent"]

\* ------------------------------------------------- trimmer as a state machine
TrimPcs == {"trim", "trim1", "trim2", "trim_again"}

AfterTrim(p) == CASE p = "trim" -> "returned"
                  [] p = "trim1" -> "call1"
                  [] p = "trim2" -> "call2"
                  [] p = "trim_again" -> "returned_again"

Saturate(n) == IF n < MaxIters THEN n + 1 ELSE n

\* mutant: the body runs once before the condition is looked at
TrimIter_AtLeastOnce ==
    /\ pc \in TrimPcs
    /\ TrimLoopCond(conversation, token_limit) \/ iters = 0
    /\ conversation' = RemoveOldestNonSystem(conversation)
    /\ iters' = Saturate(iters)
    /\ UNCHANGED <<pc, token_limit, api_key, settings, registry, given, running, other, entry,
                   tool_calls, k, tool_usage_log, invoked, sent, exc, result, logged, replies>>

\* one iteration of the while loop
TrimIter ==
    /\ pc \in TrimPcs
    /\ TrimLoopCond(conversation, token_limit)
    /\ conversation' = RemoveOldestNonSystem(conversation)
    /\ iters' = Saturate(iters)
    /\ UNCHANGED <<pc, token_limit, api_key, settings, registry, given, running, other, entry, tool_calls, k,
                   tool_usage_log, invoked, sent, exc, result, logged, replies>>

\* the while condition is false: return conversation
TrimReturn ==
    /\ pc \in TrimPcs
    /\ ~TrimLoopCond(conversation, token_limit)
    /\ pc' = AfterTrim(pc)
    /\ UNCHANGED <<conversation, token_limit, api_key, settings, registry, given, running, other, entry, iters,
                   tool_calls, k, tool_usage_log, invoked, sent, exc, result, logged, replies>>

InitTrim ==
    /\ pc = "trim"
    /\ conversation \in SeqsUpTo(CallerMessages({"system", "user", "assistant"}), MaxLen)
    /\ token_limit \in 1..MaxLimit
    /\ api_key = TRUE
    /\ entry = conversation
    /\ iters = 0
    /\ tool_calls = NoToolCalls
    /\ k = 0
    /\ tool_usage_log = <<>>
    /\ invoked = <<>>
    /\ sent = <<>>
    /\ exc = NoExc
    /\ result = NoResult
    /\ registry = ImportedRegistry
    /\ given = conversation
    /\ replies = <<>>
    /\ running = 1
    /\ other = NoOtherCall
    /\ logged = <<>>
    /\ settings = [model |-> NotSet, max_tokens |-> token_limit]

NextTrim == TrimIter \/ TrimReturn

SpecTrim == InitTrim /\ [][NextTrim]_vars

\* the trimmer is called on what it returned, with the same limit
TrimAgain ==
    /\ pc = "returned"
    /\ pc' = "trim_again"
    /\ entry' = conversation
    /\ iters' = 0
    /\ UNCHANGED <<conversation, token_limit, api_key, settings, registry, given, running, other,
                   tool_calls, k, tool_usage_log, invoked, sent, exc, result, logged, replies>>

NextTrimTwice == TrimIter \/ TrimReturn \/ TrimAgain

SpecTrimTwice == InitTrim /\ [][NextTrimTwice]_vars

\* ---------------------------------------------- the trimmer's default limit
\* token_limit = None, the default of the parameter; limits are positive
NoTokenLimit == 0 - 1

StoredModels == {NotSet, "gpt-4o"}
StoredSettings == [model : StoredModels, max_tokens : 0..MaxLimit]

\* if token_limit is None: _, token_limit = get_model_settings()
TrimEnter ==
    /\ pc = "trim_enter"
    /\ token_limit' = IF token_limit = NoTokenLimit
                      THEN get_model_settings(settings).max_tokens
                      ELSE token_limit
    /\ pc' = "trim"
    /\ UNCHANGED <<conversation, api_key, settings, registry, given, running, other, entry, iters,
                   tool_calls, k, tool_usage_log, invoked, sent, exc, result, logged, replies>>

InitTrimDefault ==
    /\ pc = "trim_enter"
    /\ conversation \in SeqsUpTo(CallerMessages({"system", "user"}), MaxConv)
    /\ token_limit \in {NoTokenLimit} \cup 1..MaxLimit
    /\ settings \in StoredSettings
    /\ api_key = TRUE
    /\ entry = conversation
    /\ iters = 0
    /\ tool_calls = NoToolCalls
    /\ k = 0
    /\ tool_usage_log = <<>>
    /\ invoked = <<>>
    /\ sent = <<>>
    /\ exc = NoExc
    /\ result = NoResult
    /\ registry = ImportedRegistry
    /\ given = conversation
    /\ replies = <<>>
    /\ running = 1
    /\ other = NoOtherCall
    /\ logged = <<>>

NextTrimDefault == TrimEnter \/ TrimIter \/ TrimReturn

SpecTrimDefault == InitTrimDefault /\ [][NextTrimDefault]_vars

\* ------------------------------------------------------------ orchestrator
\* str(e) of the exceptions the try block of ask_openai_question can see
ErrNoApiKey == <<"OpenAI API key is not set in OpenAI Settings.">>
ErrFunctionNotFound(name) == <<"Function", name, "not found.">>
ErrJsonDecode == <<"JSONDecodeError">>
ErrTool(name) == <<"raised by", name>>
ErrModelClient == <<"raised by the model client">>

\* frappe.log_error(message, title) on the log as it stands
LogError(log, message, title) == Append(log, [title |-> title, message |-> message])

\* mutant: the handler catches ValueError only
Catch_ValueErrorOnly(e) ==
    /\ exc' = e
    /\ IF e[1] = "Function"
       THEN /\ result' = [kind |-> "error", error |-> e, content |-> NoContent,
                          tool_usage |-> <<>>]
            /\ pc' = "done"
            /\ logged' = LogError(logged, e, "OpenAI API Error")
       ELSE /\ result' = result
            /\ pc' = "propagated"
            /\ logged' = logged

\* except Exception as e: log it and return {"error": str(e), "tool_usage": []};
\* log is the error log as the code that raised left it
CatchWithLog(e, log) ==
    /\ exc' = e
    /\ result' = [kind |-> "error", error |-> e, content |-> NoContent, tool_usage |-> <<>>]
    /\ pc' = "done"
    /\ logged' = LogError(log, e, "OpenAI API Error")

\* the handler reached by an exception that was not logged where it was raised
Catch(e) == CatchWithLog(e, logged)

\* return response_data, the reply's message with response_data['tool_usage'] set
Return(content) ==
    /\ result' = [kind |-> "message", error |-> NoExc, content |-> content,
                  tool_usage |-> tool_usage_log']
    /\ pc' = "done"
    /\ exc' = exc
    /\ logged' = logged

\* get_system_instructions() is a text of several hundred words that varies with
\* the user; its length is drawn from the non-empty texts of the model
SystemPromptWords == WordCounts \ {0}

\* mutant: only an empty conversation is seeded
NeedsSeed_EmptyOnly(conv) == conv = <<>>

\* if not conversation or conversation[0].get("role") != "system"
NeedsSeed(conv) == conv = <<>> \/ conv[1].role # "system"

\* conversation.insert(0, {"role": "system", "content": ...})
Seeded(conv, w) == <<Msg("system", Text(w))>> \o conv

\* mutant: the conversation is seeded before the api key is looked at
Begin_SeedsBeforeKeyCheck ==
    /\ pc = "start"
    /\ UNCHANGED <<token_limit, api_key, settings, registry, given, running, other, tool_calls, k, invoked, sent, iters,
                   replies>>
    /\ \E w \in SystemPromptWords :
          conversation' = IF NeedsSeed(conversation)
                          THEN Seeded(conversation, w)
                          ELSE conversation
    /\ \/ /\ ~api_key
          /\ Catch(ErrNoApiKey)
          /\ UNCHANGED <<entry, tool_usage_log>>
       \/ /\ api_key
          /\ tool_usage_log' = <<>>
          /\ entry' = conversation'
          /\ pc' = "trim1"
          /\ UNCHANGED <<exc, result, logged>>

\* get_openai_client, the seeding, get_model_settings, up to the first trim
Begin ==
    /\ pc = "start"
    /\ UNCHANGED <<token_limit, api_key, settings, registry, given, running, other, tool_calls, k, invoked, sent, iters,
                   replies>>
    /\ \/ /\ ~api_key
          /\ Catch(ErrNoApiKey)
          /\ UNCHANGED <<conversation, entry, tool_usage_log>>
       \/ /\ api_key
          /\ tool_usage_log' = <<>>
          /\ \E w \in SystemPromptWords :
                conversation' = IF NeedsSeed(conversation)
                                THEN Seeded(conversation, w)
                                ELSE conversation
          /\ entry' = conversation'
          /\ pc' = "trim1"
          /\ UNCHANGED <<exc, result, logged>>

\* the tool calls of a reply: OpenAI gives each call of a reply its own id
CallId(i) == <<"call", i>>
RequestedNames == {"get_customers", "no_such_tool"}
ArgumentStrings == {"{}", "{"}
ToolCallSeqs ==
    {s \in SeqsUpTo([id : {CallId(i) : i \in 1..MaxCalls}, name : RequestedNames,
                     arguments : ArgumentStrings], MaxCalls) :
        \A i \in 1..Len(s) : s[i].id = CallId(i)}
ReplyContents == {NoContent, Text(1)}
ToolResultWords == {1, 3}

\* the request client.chat.completions.create is called with
Request(messages, tools, tool_choice) ==
    [messages |-> messages, tools |-> tools, tool_choice |-> tool_choice]

\* a reply of the model client: response.choices[0].message
Reply(content, tcs) == [content |-> content, tool_calls |-> tcs]

\* response_message.model_dump() of a reply that carries tool calls
AssistantMsg(content, tcs) ==
    [role |-> "assistant", content |-> content, tool_call_id |-> "", name |-> "",
     tool_calls |-> tcs]

\* mutant: the reply is appended to the conversation whether or not it carries
\* tool calls
FirstCall_AppendsEveryReply ==
    /\ pc = "call1"
    /\ sent' = Append(sent, Request(conversation, registry.tools, "auto"))
    /\ UNCHANGED <<token_limit, api_key, settings, registry, given, running, other, tool_usage_log, invoked, iters>>
    /\ \/ /\ Catch(ErrModelClient)
          /\ UNCHANGED <<conversation, entry, tool_calls, k, replies>>
       \/ /\ \E c \in ReplyContents :
                /\ Return(c)
                /\ replies' = Append(replies, Reply(c, NoToolCalls))
                /\ conversation' = Append(conversation, AssistantMsg(c, NoToolCalls))
          /\ UNCHANGED <<entry, tool_calls, k>>
       \/ /\ \E c \in ReplyContents, tcs \in ToolCallSeqs \ {<<>>} :
                /\ conversation' = Append(conversation, AssistantMsg(c, tcs))
                /\ tool_calls' = tcs
                /\ replies' = Append(replies, Reply(c, tcs))
          /\ entry' = conversation'
          /\ k' = 1
          /\ pc' = "dispatch"
          /\ UNCHANGED <<exc, result, logged>>

\* the first client.chat.completions.create and the branch on tool_calls
FirstCall ==
    /\ pc = "call1"
    /\ sent' = Append(sent, Request(conversation, registry.tools, "auto"))
    /\ UNCHANGED <<token_limit, api_key, settings, registry, given, running, other, tool_usage_log, invoked, iters>>
    /\ \/ /\ Catch(ErrModelClient)
          /\ UNCHANGED <<conversation, entry, tool_calls, k, replies>>
       \/ /\ \E c \in ReplyContents :
                /\ Return(c)
                /\ replies' = Append(replies, Reply(c, NoToolCalls))
          /\ UNCHANGED <<conversation, entry, tool_calls, k>>
       \/ /\ \E c \in ReplyContents, tcs \in ToolCallSeqs \ {<<>>} :
                /\ conversation' = Append(conversation, AssistantMsg(c, tcs))
                /\ tool_calls' = tcs
                /\ replies' = Append(replies, Reply(c, tcs))
          /\ entry' = conversation'
          /\ k' = 1
          /\ pc' = "dispatch"
          /\ UNCHANGED <<exc, result, logged>>

\* mutant: the lookup falls back to a default function
FunctionFound_WithDefault(name) == TRUE

\* available_functions.get(function_name) gives a function
FunctionFound(name) == name \in registry.functions

\* mutant: json.loads accepts any text
JsonDecodable_Lenient(a) == TRUE

\* json.loads(tool_call.function.arguments)
JsonDecodable(a) == a = "{}"

\* mutant: every tool message carries the id of the first call
ToolMsg_FirstId(tc, w) ==
    [role |-> "tool", content |-> Text(w), tool_call_id |-> CallId(1), name |-> tc.name,
     tool_calls |-> NoToolCalls]

ToolMsg(tc, w) ==
    [role |-> "tool", content |-> Text(w), tool_call_id |-> tc.id, name |-> tc.name,
     tool_calls |-> NoToolCalls]

\* the value json.loads gives for a decodable text, written as its Python repr
JsonLoads(a) == IF a = "{}" THEN "dict()" ELSE "undecodable"

\* ------------------------------------------------------ what a tool returns
\* the value of a field of a JSON object: absent (or null), a number, a text
Absent == <<>>
Num(n) == <<"number", n>>
NotNumber == <<"text">>
\* a value len() accepts, of n items, and one it raises TypeError on
Sized(n) == <<"sized", n>>
Unsized == <<"unsized">>

\* the object has none of the keys the summary looks for
NoKey == "none"

\* function_response: json says what json.loads makes of it ("undecodable": it
\* raises, "not_object": a list or a scalar, "object": a dict); key and items are
\* the first collection key the object has and the value under it; words is
\* len(str(function_response).split()); logs is what the tool wrote to the
\* error log before it returned
Response(json, key, items, limit, total_count, error, words, logs) ==
    [json |-> json, key |-> key, items |-> items, limit |-> limit,
     total_count |-> total_count, error |-> error, words |-> words, logs |-> logs]

\* get_customers returns json.dumps of a list of rows
get_customers_returns ==
    {Response("not_object", NoKey, Absent, Absent, Absent, FALSE, w, <<>>) :
        w \in ToolResultWords}

ErrInTool(name) == <<"Error in", name>>

\* get_sales_invoices: at most 100 of the rows found and their count, or, when
\* anything inside raised, the logged error object
get_sales_invoices_returns ==
    {Response("object", "invoices", Sized(n[1]), Absent, Num(n[2]), FALSE, 3, <<>>) :
        n \in {<<0, 0>>, <<2, 2>>, <<2, 3>>}}
    \cup {Response("object", "invoices", Sized(0), Absent, Num(0), TRUE, 3,
                   LogError(<<>>, ErrInTool("get_sales_invoices"), "OpenAI Tool Error"))}

\* a registered function the dispatcher knows nothing about: any value
AnyValue ==
    {Response("undecodable", NoKey, Absent, Absent, Absent, FALSE, 1, <<>>),
     Response("not_object", NoKey, Absent, Absent, Absent, FALSE, 1, <<>>)}
    \cup {Response("object", NoKey, Absent, l, t, FALSE, 1, <<>>) :
            l \in {Absent, Num(1)}, t \in {Absent, Num(3), NotNumber}}
    \cup {Response("object", key, items, l, t, FALSE, 1, <<>>) :
            key \in {"invoices", "customers"}, items \in {Sized(0), Sized(2), Unsized},
            l \in {Absent, Num(1)}, t \in {Absent, Num(3), NotNumber}}

\* function_to_call(**function_args) when it returns
function_response(name) ==
    CASE name = "get_customers" -> get_customers_returns
      [] name = "get_sales_invoices" -> get_sales_invoices_returns
      [] OTHER -> AnyValue

\* mutant: get_sales_invoices lets a failure of its body out
MayRaise_Always(name) == TRUE

\* whether function_to_call(**function_args) can raise: get_sales_invoices
\* catches every Exception of its body
MayRaise(name) == name # "get_sales_invoices"

\* --------------------------------------------------------- result summary
\* the truth value of a field in a condition
Truthy(v) == v # Absent /\ v # Num(0)

Label(key) ==
    CASE key = "delivery_notes" -> "delivery notes"
      [] key = "invoices" -> "invoices"
      [] key = "sales_orders" -> "sales orders"
      [] key = "quotations" -> "quotations"
      [] key = "customers" -> "customers"

QueryExecuted == <<"Query executed">>
DataRetrieved == <<"Data retrieved">>
DataRetrievedSuccessfully == <<"Data retrieved successfully">>

\* tool_usage_entry['result_summary'] as the inner try/except leaves it: what
\* json.loads, len() or the comparison raise ends in "Query executed"
result_summary(r) ==
    IF r.json = "undecodable" THEN QueryExecuted
    ELSE IF r.json = "not_object" THEN DataRetrieved
    ELSE IF r.key # NoKey
    THEN IF r.items = Unsized THEN QueryExecuted
         ELSE IF Truthy(r.limit) /\ Truthy(r.total_count)
              THEN IF r.total_count = NotNumber THEN QueryExecuted
                   ELSE IF r.total_count[2] > r.items[2]
                        THEN <<"Retrieved", r.items, "of", r.total_count, Label(r.key),
                               "(limited)">>
                        ELSE <<"Retrieved", r.items, Label(r.key)>>
              ELSE <<"Retrieved", r.items, Label(r.key)>>
    ELSE IF r.total_count # Absent THEN <<"Found", r.total_count, "records">>
    ELSE DataRetrievedSuccessfully

\* mutant: the usage entry keeps the undecoded arguments text
UsageEntry_RawArguments(tc, r) ==
    [tool_name |-> tc.name, parameters |-> tc.arguments,
     result_summary |-> result_summary(r), status |-> "success"]

\* tool_usage_entry as it is when appended to the log
UsageEntry(tc, r) ==
    [tool_name |-> tc.name, parameters |-> JsonLoads(tc.arguments),
     result_summary |-> result_summary(r), status |-> "success"]

\* tool_usage_entry as the handler of a tool's exception leaves it
FailedEntry(tc) ==
    [tool_name |-> tc.name, parameters |-> JsonLoads(tc.arguments),
     result_summary |-> Absent, status |-> "error"]

\* ---------------------------------------------------------------- dispatcher
\* the name is not a key of available_functions: log and raise ValueError
DispatchUnknown(tc) ==
    /\ ~FunctionFound(tc.name)
    /\ CatchWithLog(ErrFunctionNotFound(tc.name),
                    LogError(logged, ErrFunctionNotFound(tc.name), "OpenAI Tool Error"))
    /\ UNCHANGED <<conversation, entry, k, tool_usage_log, invoked, iters>>

\* json.loads(tool_call.function.arguments) raises
DispatchUndecodable(tc) ==
    /\ FunctionFound(tc.name)
    /\ ~JsonDecodable(tc.arguments)
    /\ Catch(ErrJsonDecode)
    /\ UNCHANGED <<conversation, entry, k, tool_usage_log, invoked, iters>>

\* mutant: a tool's exception is raised again without being logged
ToolRaises_NotLogged(tc) ==
    /\ MayRaise(tc.name)
    /\ Catch(ErrTool(tc.name))
    /\ UNCHANGED <<conversation, entry, k, tool_usage_log, iters>>

\* the tool raises: log, mark the entry (which is then dropped) and raise again
ToolRaises(tc) ==
    /\ MayRaise(tc.name)
    /\ CatchWithLog(ErrTool(tc.name), LogError(logged, ErrTool(tc.name), "OpenAI Tool Error"))
    /\ UNCHANGED <<conversation, entry, k, tool_usage_log, iters>>

\* mutant: the tool message is put right after the assistant message
AppendToolMsg_AfterRequests(conv, m) ==
    LET base == CHOOSE i \in 1..Len(conv) :
                    conv[i].role = "assistant" /\ \A j \in (i + 1)..Len(conv) : conv[j].role = "tool"
    IN  SubSeq(conv, 1, base) \o <<m>> \o SubSeq(conv, base + 1, Len(conv))

\* conversation.append({...})
AppendToolMsg(conv, m) == Append(conv, m)

\* the loop is over: handle_tool_calls returns and the second trim is entered
AfterBatch ==
    IF k = Len(tool_calls)
    THEN pc' = "trim2" /\ entry' = conversation' /\ iters' = 0
    ELSE UNCHANGED <<pc, entry, iters>>

ErrSummary == <<"raised by the summary">>

\* mutant: the summary has no handler of its own, so what json.loads, len() or
\* the comparison raise is handled as a failure of the tool
ToolReturns_SummaryUnguarded(tc) ==
    \E r \in function_response(tc.name) :
        IF result_summary(r) = QueryExecuted
        THEN /\ CatchWithLog(ErrSummary, LogError(logged \o r.logs, ErrSummary, "OpenAI Tool Error"))
             /\ UNCHANGED <<conversation, entry, k, tool_usage_log, iters>>
        ELSE /\ tool_usage_log' = Append(tool_usage_log, UsageEntry(tc, r))
             /\ conversation' = AppendToolMsg(conversation, ToolMsg(tc, r.words))
             /\ logged' = logged \o r.logs
             /\ k' = k + 1
             /\ AfterBatch
             /\ UNCHANGED <<exc, result>>

\* mutant: a tool's exception is recorded in the log and the batch goes on
ToolReturns_OrFailureRecorded(tc) ==
    /\ \/ \E r \in function_response(tc.name) :
             /\ tool_usage_log' = Append(tool_usage_log, UsageEntry(tc, r))
             /\ conversation' = AppendToolMsg(conversation, ToolMsg(tc, r.words))
             /\ logged' = logged \o r.logs
       \/ /\ MayRaise(tc.name)
          /\ tool_usage_log' = Append(tool_usage_log, FailedEntry(tc))
          /\ conversation' = AppendToolMsg(conversation, ToolMsg(tc, 1))
          /\ logged' = LogError(logged, ErrTool(tc.name), "OpenAI Tool Error")
    /\ k' = k + 1
    /\ AfterBatch
    /\ UNCHANGED <<exc, result>>

\* the tool returns: summarise, append the entry and the tool message, go on
ToolReturns(tc) ==
    /\ \E r \in function_response(tc.name) :
          /\ tool_usage_log' = Append(tool_usage_log, UsageEntry(tc, r))
          /\ conversation' = AppendToolMsg(conversation, ToolMsg(tc, r.words))
          /\ logged' = logged \o r.logs
    /\ k' = k + 1
    /\ AfterBatch
    /\ UNCHANGED <<exc, result>>

\* mutant: after the batch the second model call is made without trimming again
DispatchOne_NoSecondTrim ==
    /\ pc = "dispatch"
    /\ k <= Len(tool_calls)
    /\ UNCHANGED <<token_limit, api_key, settings, registry, given, running, other, tool_calls,
                   sent, replies>>
    /\ LET tc == tool_calls[k] IN
       \/ DispatchUnknown(tc)
       \/ DispatchUndecodable(tc)
       \/ /\ FunctionFound(tc.name)
          /\ JsonDecodable(tc.arguments)
          /\ invoked' = Append(invoked, tc.id)
          /\ \/ ToolRaises(tc)
             \/ /\ \E r \in function_response(tc.name) :
                      /\ tool_usage_log' = Append(tool_usage_log, UsageEntry(tc, r))
                      /\ conversation' = AppendToolMsg(conversation, ToolMsg(tc, r.words))
                      /\ logged' = logged \o r.logs
                /\ k' = k + 1
                /\ IF k = Len(tool_calls)
                   THEN pc' = "call2" /\ entry' = conversation' /\ iters' = 0
                   ELSE UNCHANGED <<pc, entry, iters>>
                /\ UNCHANGED <<exc, result>>

\* mutant: a name that is not found is registered before the error is raised
DispatchOne_RegistersMissing ==
    /\ pc = "dispatch"
    /\ k <= Len(tool_calls)
    /\ UNCHANGED <<token_limit, api_key, settings, given, running, other, tool_calls, sent,
                   replies>>
    /\ LET tc == tool_calls[k] IN
       \/ /\ DispatchUnknown(tc)
          /\ registry' = [registry EXCEPT !.functions = @ \cup {tc.name}]
       \/ /\ DispatchUndecodable(tc)
          /\ UNCHANGED registry
       \/ /\ FunctionFound(tc.name)
          /\ JsonDecodable(tc.arguments)
          /\ invoked' = Append(invoked, tc.id)
          /\ UNCHANGED registry
          /\ (ToolRaises(tc) \/ ToolReturns(tc))

\* mutant: the batch is validated first, so a request that cannot be dispatched
\* fails the batch before any tool is invoked
DispatchOne_ValidatesBatchFirst ==
    /\ pc = "dispatch"
    /\ k <= Len(tool_calls)
    /\ UNCHANGED <<token_limit, api_key, settings, registry, given, running, other, tool_calls,
                   sent, replies>>
    /\ LET bad == {i \in k..Len(tool_calls) :
                      ~FunctionFound(tool_calls[i].name) \/ ~JsonDecodable(tool_calls[i].arguments)}
           tc == tool_calls[IF bad = {} THEN k ELSE CHOOSE i \in bad : \A j \in bad : i <= j]
       IN
       \/ DispatchUnknown(tc)
       \/ DispatchUndecodable(tc)
       \/ /\ FunctionFound(tc.name)
          /\ JsonDecodable(tc.arguments)
          /\ invoked' = Append(invoked, tc.id)
          /\ (ToolRaises(tc) \/ ToolReturns(tc))

\* one iteration of the for loop of handle_tool_calls; after the last one the
\* function returns and the second trim is entered
DispatchOne ==
    /\ pc = "dispatch"
    /\ k <= Len(tool_calls)
    /\ UNCHANGED <<token_limit, api_key, settings, registry, given, running, other, tool_calls,
                   sent, replies>>
    /\ LET tc == tool_calls[k] IN
       \/ DispatchUnknown(tc)
       \/ DispatchUndecodable(tc)
       \/ /\ FunctionFound(tc.name)
          /\ JsonDecodable(tc.arguments)
          /\ invoked' = Append(invoked, tc.id)
          /\ (ToolRaises(tc) \/ ToolReturns(tc))

\* mutant: a failed second call is tried again
SecondCall_Retries ==
    /\ pc = "call2"
    /\ sent' = Append(sent, Request(conversation, NoTools, NoToolChoice))
    /\ UNCHANGED <<conversation, token_limit, api_key, settings, registry, given, running, other, entry, iters, tool_calls, k,
                   tool_usage_log, invoked>>
    /\ \/ UNCHANGED <<pc, exc, result, logged, replies>>
       \/ \E c \in ReplyContents :
             Return(c) /\ replies' = Append(replies, Reply(c, NoToolCalls))

\* mutant: the second call offers the tools again
SecondCall_OffersTools ==
    /\ pc = "call2"
    /\ sent' = Append(sent, Request(conversation, registry.tools, "auto"))
    /\ UNCHANGED <<conversation, token_limit, api_key, settings, registry, given, running, other, entry, iters, tool_calls, k,
                   tool_usage_log, invoked>>
    /\ \/ Catch(ErrModelClient) /\ UNCHANGED replies
       \/ \E c \in ReplyContents :
             Return(c) /\ replies' = Append(replies, Reply(c, NoToolCalls))

\* the second client.chat.completions.create and the return
SecondCall ==
    /\ pc = "call2"
    /\ sent' = Append(sent, Request(conversation, NoTools, NoToolChoice))
    /\ UNCHANGED <<conversation, token_limit, api_key, settings, registry, given, running, other, entry, iters, tool_calls, k,
                   tool_usage_log, invoked>>
    /\ \/ Catch(ErrModelClient) /\ UNCHANGED replies
       \/ \E c \in ReplyContents :
             Return(c) /\ replies' = Append(replies, Reply(c, NoToolCalls))

Init ==
    /\ pc = "start"
    /\ conversation \in SeqsUpTo(CallerMessages({"system", "user"}), MaxConv)
    /\ token_limit \in 1..MaxLimit
    /\ api_key \in BOOLEAN
    /\ entry = conversation
    /\ iters = 0
    /\ tool_calls = NoToolCalls
    /\ k = 0
    /\ tool_usage_log = <<>>
    /\ invoked = <<>>
    /\ sent = <<>>
    /\ exc = NoExc
    /\ result = NoResult
    /\ registry = ImportedRegistry
    /\ given = conversation
    /\ replies = <<>>
    /\ running = 1
    /\ other = NoOtherCall
    /\ logged = <<>>
    /\ settings = [model |-> NotSet, max_tokens |-> token_limit]

Next == Begin \/ TrimIter \/ TrimReturn \/ FirstCall \/ DispatchOne \/ SecondCall

Spec == Init /\ [][Next]_vars

\* the worker thread keeps executing the call: a step that is possible is taken
FairSpec == Spec /\ WF_vars(Next)

\* ---------------------------------------------------- the dispatcher entered
\* the names the first reply asks for
DispatchedNames == {"get_sales_invoices", "list_customers", "no_such_tool"}
DispatchedBatches ==
    {s \in SeqsUpTo([id : {CallId(i) : i \in 1..MaxCalls}, name : DispatchedNames,
                     arguments : ArgumentStrings], MaxCalls) :
        s # <<>> /\ \A i \in 1..Len(s) : s[i].id = CallId(i)}

\* what ask_openai_question was given, within the limit and with its system message
AskedConversation == <<Msg("system", Text(1)), Msg("user", Text(0))>>

\* ask_openai_question as it enters handle_tool_calls: the first reply carried
\* tool calls and was appended to the conversation
InitDispatch ==
    /\ pc = "dispatch"
    /\ tool_calls \in DispatchedBatches
    /\ k = 1
    /\ conversation = Append(AskedConversation, AssistantMsg(NoContent, tool_calls))
    /\ token_limit = MaxLimit
    /\ api_key = TRUE
    /\ entry = conversation
    /\ iters = 0
    /\ tool_usage_log = <<>>
    /\ invoked = <<>>
    /\ registry = ImportedRegistry
    /\ sent = <<Request(AskedConversation, registry.tools, "auto")>>
    /\ exc = NoExc
    /\ result = NoResult
    /\ given = AskedConversation
    /\ replies = <<Reply(NoContent, tool_calls)>>
    /\ running = 1
    /\ other = NoOtherCall
    /\ logged = <<>>
    /\ settings = [model |-> NotSet, max_tokens |-> token_limit]

NextDispatch == DispatchOne \/ TrimIter \/ TrimReturn \/ SecondCall

SpecDispatch == InitDispatch /\ [][NextDispatch]_vars

\* ------------------------------------------------------- two concurrent calls
\* what belongs to one call of ask_openai_question: its parameter (a list
\* object of its own), its local variables and its position
Frame ==
    [pc |-> pc, conversation |-> conversation, entry |-> entry, iters |-> iters,
     tool_calls |-> tool_calls, k |-> k, tool_usage_log |-> tool_usage_log,
     invoked |-> invoked, sent |-> sent, exc |-> exc, result |-> result,
     given |-> given, replies |-> replies, logged |-> logged]

\* a call at its first statement, given conv
FrameAtCall(conv) ==
    [pc |-> "start", conversation |-> conv, entry |-> conv, iters |-> 0,
     tool_calls |-> NoToolCalls, k |-> 0, tool_usage_log |-> <<>>, invoked |-> <<>>,
     sent |-> <<>>, exc |-> NoExc, result |-> NoResult, given |-> conv, replies |-> <<>>,
     logged |-> <<>>]

\* the worker of the other request gets the processor: the running call is
\* suspended where it stands and the other one resumes
Switch ==
    /\ other # NoOtherCall
    /\ running' = IF running = 1 THEN 2 ELSE 1
    /\ other' = Frame
    /\ pc' = other.pc
    /\ conversation' = other.conversation
    /\ entry' = other.entry
    /\ iters' = other.iters
    /\ tool_calls' = other.tool_calls
    /\ k' = other.k
    /\ tool_usage_log' = other.tool_usage_log
    /\ invoked' = other.invoked
    /\ sent' = other.sent
    /\ exc' = other.exc
    /\ result' = other.result
    /\ given' = other.given
    /\ replies' = other.replies
    /\ logged' = other.logged
    /\ UNCHANGED <<token_limit, api_key, settings, registry>>

\* the conversations of the two concurrent requests
ConcurrentInputs ==
    [first : {<<Msg("user", Text(3))>>},
     second : {<<Msg("system", Text(1)), Msg("user", Text(1))>>}]

InitTwoCalls ==
    \E in \in ConcurrentInputs :
        /\ pc = "start"
        /\ conversation = in.first
        /\ token_limit = MaxLimit
        /\ api_key = TRUE
        /\ entry = conversation
        /\ iters = 0
        /\ tool_calls = NoToolCalls
        /\ k = 0
        /\ tool_usage_log = <<>>
        /\ invoked = <<>>
        /\ sent = <<>>
        /\ exc = NoExc
        /\ result = NoResult
        /\ registry = ImportedRegistry
        /\ given = conversation
        /\ replies = <<>>
        /\ running = 1
        /\ other = FrameAtCall(in.second)
        /\ logged = <<>>
        /\ settings = [model |-> NotSet, max_tokens |-> token_limit]

NextTwoCalls ==
    Begin \/ TrimIter \/ TrimReturn \/ FirstCall \/ DispatchOne \/ SecondCall \/ Switch

SpecTwoCalls == InitTwoCalls /\ [][NextTwoCalls]_vars

\* =================================================================== claims
InTrimmer == pc \in TrimPcs
TrimReturned == pc \in {"returned", "call1", "call2"}

SystemMessages(conv) == SelectSeq(conv, IsSystem)
NonSystemCount(conv) == Len(conv) - Len(SystemMessages(conv))

\* C1: trim_conversation_to_token_limit terminates for every conversation and
\* positive limit, also when every remaining message has role system, and the
\* number of iterations of its loop is at most the length of the conversation
\* it was given.
C1_TrimTerminatesWithinLength ==
    (InTrimmer \/ TrimReturned) => iters <= Len(entry)

\* The state C1 fails in: the loop condition holds and no message is removable,
\* so an iteration leaves the conversation as it is.
C1_StuckState ==
    /\ InTrimmer
    /\ TrimLoopCond(conversation, token_limit)
    /\ RemoveOldestNonSystem(conversation) = conversation

\* C2: whenever the trimmer returns, the conversation's estimate is within the
\* limit, or the conversation has exactly one message, or it was empty on entry.
C2_TrimPostcondition ==
    TrimReturned =>
        \/ estimate_token_count(conversation) <= token_limit
        \/ Len(conversation) = 1
        \/ entry = <<>>

C2_Witness ==
    /\ pc = "returned"
    /\ iters >= 1
    /\ Len(conversation) >= 2
    /\ estimate_token_count(entry) > token_limit
    /\ estimate_token_count(conversation) <= token_limit

\* C3: the trimmer never removes a message of role system, wherever it stands
\* and whatever the limit: after every step the system messages of the
\* conversation are those it was entered with.
C3_SystemMessagesKept ==
    (InTrimmer \/ TrimReturned) => SystemMessages(conversation) = SystemMessages(entry)

C3_Witness ==
    /\ pc = "returned"
    /\ iters >= 1
    /\ Len(conversation) < Len(entry)
    /\ Len(entry) >= 3
    /\ ~IsSystem(entry[1])
    /\ IsSystem(entry[2])
    /\ estimate_token_count(conversation) > token_limit

\* the rank of position i among the non-system messages of conv
NonSystemRank(conv, i) == Cardinality({j \in 1..i : ~IsSystem(conv[j])})

\* conv without its first n non-system messages, the rest in their order
WithoutOldestNonSystem(conv, n) ==
    LET kept == {i \in 1..Len(conv) : IsSystem(conv[i]) \/ NonSystemRank(conv, i) > n}
        nth(m) == CHOOSE i \in kept : Cardinality({j \in kept : j <= i}) = m
    IN  [m \in 1..Cardinality(kept) |-> conv[nth(m)]]

\* C4: the messages the trimmer removes are exactly the first n non-system
\* messages of the conversation, for some n >= 0, and the messages that stay
\* keep their order.
C4_RemovesOldestNonSystemOnly ==
    (InTrimmer \/ TrimReturned) =>
        \E n \in 0..NonSystemCount(entry) :
            /\ conversation = WithoutOldestNonSystem(entry, n)
            /\ Len(conversation) = Len(entry) - n

C4_Witness ==
    /\ pc = "returned"
    /\ Len(entry) >= 3
    /\ ~IsSystem(entry[1])
    /\ IsSystem(entry[2])
    /\ ~IsSystem(entry[3])
    /\ entry[1] # entry[3]
    /\ conversation = <<entry[2], entry[3]>>

\* C5: trimming a non-empty conversation never yields an empty one (the last
\* message stays even when it alone is over the limit), and a system message at
\* index 0 stays at index 0.
C5_NeverEmptyAndLeadingSystemKept ==
    ((InTrimmer \/ TrimReturned) /\ entry # <<>>) =>
        /\ conversation # <<>>
        /\ IsSystem(entry[1]) => conversation[1] = entry[1]

C5_Witness ==
    /\ pc = "returned"
    /\ Len(entry) >= 2
    /\ Len(conversation) = 1
    /\ ~IsSystem(conversation[1])
    /\ estimate_token_count(conversation) > token_limit

\* ------------------------------------------------------ claims on the orchestrator
ModelCalls == Len(sent)
Done == pc = "done"
Failed == exc # NoExc
DispatchErrors ==
    {ErrJsonDecode} \cup {ErrFunctionNotFound(n) : n \in RequestedNames}
                    \cup {ErrTool(n) : n \in RequestedNames}
AllDispatched == tool_calls # NoToolCalls /\ Len(tool_usage_log) = Len(tool_calls)
ErrorResult(e) == [kind |-> "error", error |-> e, content |-> NoContent, tool_usage |-> <<>>]

\* C6: one ask_openai_question call makes at most two model calls: exactly two
\* when the first reply carries tool calls that all dispatch, exactly one when
\* it carries none, and none after a failure (a failed first call or dispatch
\* leaves one call made, a failed second call two, a missing key none).
C6_AtMostTwoModelCalls ==
    /\ ModelCalls <= 2
    /\ (Done /\ ~Failed /\ tool_calls = NoToolCalls) => ModelCalls = 1
    /\ (Done /\ AllDispatched) => ModelCalls = 2
    /\ (Done /\ exc = ErrNoApiKey) => ModelCalls = 0
    /\ (Done /\ exc \in DispatchErrors) => ModelCalls = 1
    /\ (Done /\ exc = ErrModelClient) =>
            ModelCalls = (IF tool_calls = NoToolCalls THEN 1 ELSE 2)
    /\ (Done /\ ModelCalls = 2) => AllDispatched
    /\ (pc = "trim2" /\ TrimLoopCond(conversation, token_limit)) =>
            RemoveOldestNonSystem(conversation) # conversation
    /\ pc \in {"trim2", "call2"} => (AllDispatched /\ ModelCalls = 1 /\ ~Failed)

C6_Witness ==
    /\ Done
    /\ ModelCalls = 2
    /\ Len(tool_calls) = 2
    /\ exc = ErrModelClient

\* C7: an exception raised in the first model call, the dispatch or the second
\* model call never leaves ask_openai_question: the call ends and returns
\* {error: str(e), tool_usage: []}.
C7_ExceptionsBecomeErrorResults ==
    /\ pc # "propagated"
    /\ Failed => (Done /\ result = ErrorResult(exc))
    /\ (Done /\ result.kind = "error") => Failed

C7_Witness ==
    /\ Done
    /\ exc = ErrTool("get_customers")
    /\ Len(tool_usage_log) = 1
    /\ result = ErrorResult(exc)

\* the dispatcher stopped at request k of the batch
StoppedAt(i) == Done /\ tool_calls # NoToolCalls /\ k = i /\ i <= Len(tool_calls)

ToolMessagesFor(conv, id) == {i \in 1..Len(conv) : conv[i].role = "tool" /\ conv[i].tool_call_id = id}

\* C8: when the model requests a name that available_functions lacks, the
\* dispatcher raises an error naming it, appends no tool-result message for
\* the request and does not invoke anything for it, and ask_openai_question
\* returns {error, tool_usage: []} with no second model call.
C8_UnknownToolIsFatal ==
    \A i \in 1..MaxCalls :
        (StoppedAt(i) /\ tool_calls[i].name \notin available_functions) =>
            /\ exc = ErrFunctionNotFound(tool_calls[i].name)
            /\ result = ErrorResult(exc)
            /\ ToolMessagesFor(conversation, tool_calls[i].id) = {}
            /\ \A j \in 1..Len(invoked) : invoked[j] # tool_calls[i].id
            /\ ModelCalls = 1

C8_Witness ==
    /\ StoppedAt(2)
    /\ tool_calls[2].name = "no_such_tool"
    /\ tool_calls[1].name = "get_customers"
    /\ Len(tool_usage_log) = 1

\* the dispatcher returned, every request of the batch having succeeded
BatchSucceeded == pc = "trim2" /\ iters = 0

\* C9: when every request of a batch succeeds the tools were invoked one by one
\* in the order of the requests, and the conversation ends with the assistant
\* message that carries the requests followed by one tool message per request,
\* in that order, with the request's id as tool_call_id and its function name
\* as name; so each tool message matches exactly one request of that message.
C9_OneToolMessagePerRequestInOrder ==
    BatchSucceeded =>
        LET n == Len(tool_calls)
            base == Len(conversation) - n
        IN  /\ n >= 1
            /\ base >= 1
            /\ conversation[base].role = "assistant"
            /\ conversation[base].tool_calls = tool_calls
            /\ invoked = [i \in 1..n |-> tool_calls[i].id]
            /\ \A i \in 1..n :
                  /\ conversation[base + i].role = "tool"
                  /\ conversation[base + i].tool_call_id = tool_calls[i].id
                  /\ conversation[base + i].name = tool_calls[i].name
                  /\ Cardinality({j \in 1..n :
                        tool_calls[j].id = conversation[base + i].tool_call_id}) = 1

C9_Witness ==
    /\ BatchSucceeded
    /\ Len(tool_calls) = 2
    /\ Len(conversation) >= 4

\* position of the assistant message whose requests the tool message at i answers:
\* the nearest message before i that is not a tool message
RequesterOf(conv, i) ==
    IF \E a \in 1..(i - 1) : conv[a].role # "tool"
    THEN CHOOSE a \in 1..(i - 1) :
            /\ conv[a].role # "tool"
            /\ \A b \in (a + 1)..(i - 1) : conv[b].role = "tool"
    ELSE 0

Correlated(conv) ==
    \A i \in 1..Len(conv) :
        conv[i].role = "tool" =>
            LET a == RequesterOf(conv, i) IN
            /\ a >= 1
            /\ conv[a].role = "assistant"
            /\ Cardinality({j \in 1..Len(conv[a].tool_calls) :
                    conv[a].tool_calls[j].id = conv[i].tool_call_id}) = 1

\* C10: in the conversation of the second model call every tool message's
\* tool_call_id matches exactly one request of the assistant message that
\* immediately precedes the tool messages: the second trim never leaves a tool
\* message without the assistant message that asked for it.
C10_SecondCallCorrelated ==
    ModelCalls = 2 => Correlated(sent[2].messages)

\* what holds instead before the second trim
C10_CorrelatedBeforeRetrim ==
    BatchSucceeded => Correlated(conversation)

\* the first reply carried no tool calls and the call returned it
PlainReplyReturned == Done /\ ~Failed /\ tool_calls = NoToolCalls

\* C11: when the first reply carries no tool calls, ask_openai_question returns
\* that reply with tool_usage = [], invokes no tool, makes no second model call
\* and does not append the reply: the conversation on return is the seeded and
\* trimmed input, the one the model was sent.
C11_PlainReplyReturnedUntouched ==
    PlainReplyReturned =>
        /\ Len(replies) = 1
        /\ replies[1].tool_calls = NoToolCalls
        /\ result = [kind |-> "message", error |-> NoExc, content |-> replies[1].content,
                     tool_usage |-> <<>>]
        /\ invoked = <<>>
        /\ ModelCalls = 1
        /\ conversation = sent[1].messages
        /\ \E n \in 0..NonSystemCount(entry) : conversation = WithoutOldestNonSystem(entry, n)
        /\ entry \in {given} \cup {<<Msg("system", Text(w))>> \o given : w \in SystemPromptWords}
        /\ \A i \in 1..Len(conversation) : conversation[i].tool_calls = NoToolCalls

C11_Witness ==
    /\ PlainReplyReturned
    /\ result.content = Text(1)
    /\ Len(given) = 2
    /\ Len(conversation) = 2

\* C12: when the first reply carries N >= 1 tool calls and all succeed, the
\* result is the second reply with a tool_usage of exactly N entries, one per
\* request in request order, each with status success, the request's tool name
\* and its decoded parameters.
C12_UsageLogOfSuccessfulBatch ==
    (Done /\ ~Failed /\ tool_calls # NoToolCalls) =>
        /\ Len(replies) = 2
        /\ result.kind = "message"
        /\ result.content = replies[2].content
        /\ Len(result.tool_usage) = Len(tool_calls)
        /\ \A i \in 1..Len(tool_calls) :
              /\ result.tool_usage[i].status = "success"
              /\ result.tool_usage[i].tool_name = tool_calls[i].name
              /\ result.tool_usage[i].parameters = JsonLoads(tool_calls[i].arguments)
              /\ JsonDecodable(tool_calls[i].arguments)

C12_Witness ==
    /\ Done
    /\ ~Failed
    /\ Len(tool_calls) = 2
    /\ Len(result.tool_usage) = 2
    /\ result.content = Text(1)

Range(f) == {f[i] : i \in DOMAIN f}

\* C13: the names get_tools() advertises are the keys of available_functions
\* (every advertised name has an implementation, every implemented name is
\* advertised), and no step of the orchestrator or the dispatcher changes
\* either of them.
C13_RegistryInLockStep ==
    /\ Range(registry.tools) = registry.functions
    /\ Len(registry.tools) = Cardinality(registry.functions)
    /\ registry = ImportedRegistry
    /\ \A i \in 1..Len(sent) : sent[i].tools \in {NoTools, get_tools}

C13_Witness ==
    /\ Done
    /\ Len(tool_usage_log) = 2
    /\ ModelCalls = 2
    /\ Range(sent[1].tools) = registry.functions

\* C14: with no api key set, ask_openai_question fails before any model call
\* and any tool invocation, returns an error result with the user-facing
\* message and leaves the caller's conversation as it was: nothing inserted,
\* nothing trimmed.
C14_MissingKeyFailsFast ==
    ~api_key =>
        /\ pc \in {"start", "done"}
        /\ sent = <<>>
        /\ invoked = <<>>
        /\ conversation = given
        /\ Done => result = ErrorResult(ErrNoApiKey)

C14_Witness ==
    /\ Done
    /\ ~api_key
    /\ Len(given) = 2
    /\ given[1].role # "system"
    /\ estimate_token_count(given) > token_limit

\* C15: every conversation sent to the model client, in the first call and in
\* the second, has an estimate within max_tokens or is a single message: a trim
\* comes right before each call and nothing is appended in between.
C15_SentConversationsWithinBudget ==
    /\ \A i \in 1..Len(sent) :
          \/ estimate_token_count(sent[i].messages) <= token_limit
          \/ Len(sent[i].messages) = 1
    /\ pc \in {"call1", "call2"} => ~TrimLoopCond(conversation, token_limit)

C15_Witness ==
    /\ ModelCalls = 2
    /\ Len(sent[2].messages) >= 3
    /\ Len(sent[2].messages) < Len(entry)
    /\ estimate_token_count(entry) > token_limit

\* the seeding is done and no reply has been appended yet
JustSeeded == pc \in {"trim1", "call1"}

\* C16: every ask_openai_question call eventually returns a result, a reply or
\* an error object, whatever the conversation, given that every model call and
\* every tool invocation returns or raises.
C16_EveryCallReturns == <>(pc = "done")

\* C18: seeding inserts a system message at index 0 exactly when the
\* conversation is empty or its first message is not a system message;
\* afterwards the first message is a system message, the caller's messages
\* follow in their order, and a leading system message of the caller is kept
\* as it is with no second one put before it.
C18_SeedingIffNoLeadingSystem ==
    JustSeeded =>
        LET inserted == Len(entry) - Len(given) IN
        /\ inserted \in {0, 1}
        /\ (inserted = 1) <=> (given = <<>> \/ given[1].role # "system")
        /\ SubSeq(entry, inserted + 1, Len(entry)) = given
        /\ entry # <<>>
        /\ entry[1].role = "system"
        /\ inserted = 1 => entry[1].content # NoContent
        /\ conversation # <<>> /\ conversation[1] = entry[1]

C18_Witness ==
    /\ pc = "call1"
    /\ Len(given) = 2
    /\ given[1].role = "user"
    /\ given[2].role = "system"
    /\ Len(entry) = 3

PcSteps ==
    {<<"start", "trim1">>, <<"start", "done">>, <<"trim1", "call1">>,
     <<"call1", "done">>, <<"call1", "dispatch">>, <<"dispatch", "trim2">>,
     <<"dispatch", "done">>, <<"trim2", "call2">>, <<"call2", "done">>}

HasRequestingAssistant(conv) ==
    \E i \in 1..Len(conv) : conv[i].role = "assistant" /\ conv[i].tool_calls = tool_calls

\* C19: a run goes SEED, FIRST_CALL, then DONE or TOOLS_REQUESTED, SECOND_CALL,
\* DONE (an error ends it at DONE from wherever it stands): the seeding comes
\* before the first trim, a trim right before each model call, the assistant
\* message with the tool calls is in the conversation before any tool message
\* is appended, tools are invoked only between the first and the second model
\* call, the first call carries the whole tool schema with tool_choice auto and
\* the second call carries no tools.
C19_OrderOfARun ==
    /\ [](/\ Len(sent) >= 1 => (sent[1].tools = get_tools /\ sent[1].tool_choice = "auto")
          /\ Len(sent) >= 2 => (sent[2].tools = NoTools /\ sent[2].tool_choice = NoToolChoice)
          /\ pc \in {"trim1", "call1", "dispatch", "trim2", "call2"} =>
                (conversation # <<>> /\ conversation[1].role = "system")
          /\ pc = "start" => (iters = 0 /\ conversation = given))
    /\ [][/\ pc' # pc => <<pc, pc'>> \in PcSteps
          /\ sent' # sent =>
                /\ pc \in {"call1", "call2"}
                /\ ~TrimLoopCond(conversation, token_limit)
                /\ sent' = Append(sent, Request(conversation, sent'[Len(sent')].tools,
                                                sent'[Len(sent')].tool_choice))
          /\ invoked' # invoked =>
                /\ pc = "dispatch"
                /\ Len(sent) = 1
                /\ sent' = sent
                /\ HasRequestingAssistant(conversation)
          /\ (Len(conversation') = Len(conversation) + 1
               /\ conversation'[Len(conversation')].role = "tool") =>
                /\ pc = "dispatch"
                /\ HasRequestingAssistant(conversation)
                /\ Len(sent) = 1
         ]_vars

C19_Witness ==
    /\ Done
    /\ ~Failed
    /\ ModelCalls = 2
    /\ Len(invoked) = 2

\* the empty string: a text of no words
EmptyText == Text(0)

\* the sum the claim describes: messages whose content is absent, null or empty
\* count for nothing
RECURSIVE ClaimedEstimate(_)
ClaimedEstimate(messages) ==
    IF messages = <<>> THEN 0
    ELSE (IF Head(messages).content \in {NoContent, EmptyText}
          THEN 0
          ELSE tokens_per_message
               + (tokens_per_word_num * Head(messages).content[1]) \div tokens_per_word_den)
         + ClaimedEstimate(Tail(messages))

\* C20: estimate_token_count is a non-negative integer, the sum over the
\* messages with non-empty content of 4 + floor(1.5 * words); a message whose
\* content is absent, null or empty adds nothing.
C20_EstimateSkipsEmptyContent ==
    /\ estimate_token_count(conversation) >= 0
    /\ estimate_token_count(conversation) = ClaimedEstimate(conversation)

\* C17: two ask_openai_question calls running concurrently on distinct
\* conversation objects do not interfere, however their steps interleave: a step
\* of one call leaves the other call's conversation, usage log and result as
\* they are, a switch between the calls changes neither, what the calls share
\* (get_tools, available_functions, the settings) is never written, and so the
\* running call's outcome obeys what holds of a call running alone.
C17_ConcurrentCallsDoNotInterfere ==
    /\ [][/\ registry' = registry
          /\ token_limit' = token_limit
          /\ api_key' = api_key
          /\ \/ running' = running /\ other' = other
             \/ running' # running /\ other' = Frame /\ Frame' = other
         ]_vars
    /\ [](/\ registry = ImportedRegistry
          /\ C8_UnknownToolIsFatal
          /\ C11_PlainReplyReturnedUntouched
          /\ C12_UsageLogOfSuccessfulBatch
          /\ C14_MissingKeyFailsFast)

C17_Witness ==
    /\ running = 2
    /\ pc = "dispatch"
    /\ k = 2
    /\ other.pc = "dispatch"
    /\ other.k = 2
    /\ Len(tool_usage_log) = 1
    /\ Len(other.tool_usage_log) = 1
    /\ other.conversation # conversation

\* ------------------------------------------------------ claims on the dispatcher
\* a tool raised: the exception the handler saw came out of function_to_call
ToolFailed == exc # NoExc /\ exc[1] = "raised by"

ToolErrorLog(e) == [title |-> "OpenAI Tool Error", message |-> e]
ApiErrorLog(e) == [title |-> "OpenAI API Error", message |-> e]

IsPrefix(s, t) == Len(s) <= Len(t) /\ SubSeq(t, 1, Len(s)) = s

\* the arguments text json.loads does not accept
Malformed(a) == a = "{"

\* C21: when a tool raises inside handle_tool_calls the failure is logged and
\* raised again: no later request of the batch is invoked, no tool message and
\* no usage entry is added for the failing request, and ask_openai_question
\* ends with an error result after one model call only.
C21_ToolFailureAbortsBatch ==
    ToolFailed =>
        /\ Done
        /\ k \in 1..Len(tool_calls)
        /\ exc = ErrTool(tool_calls[k].name)
        /\ Len(logged) >= 2
        /\ logged[Len(logged) - 1] = ToolErrorLog(exc)
        /\ logged[Len(logged)] = ApiErrorLog(exc)
        /\ invoked = [i \in 1..k |-> tool_calls[i].id]
        /\ ToolMessagesFor(conversation, tool_calls[k].id) = {}
        /\ Len(tool_usage_log) = k - 1
        /\ result = ErrorResult(exc)
        /\ ModelCalls = 1

C21_Witness ==
    /\ ToolFailed
    /\ k = 1
    /\ Len(tool_calls) = 2
    /\ tool_calls[2].name = "get_customers"
    /\ tool_calls[2].arguments = "{}"
    /\ Len(invoked) = 1

\* C22: arguments that are not decodable JSON are a fatal dispatch error: the
\* tool of that request is not invoked, no tool message and no usage entry is
\* added for it, the requests after it are not processed, and the call ends
\* with the decode error as its error result.
C22_UndecodableArgumentsAreFatal ==
    /\ \A i \in 1..Len(tool_calls) :
          Malformed(tool_calls[i].arguments) =>
              /\ \A j \in 1..Len(invoked) : invoked[j] # tool_calls[i].id
              /\ ToolMessagesFor(conversation, tool_calls[i].id) = {}
              /\ Len(tool_usage_log) < i
              /\ k <= i
    /\ exc = ErrJsonDecode =>
          /\ Done
          /\ k \in 1..Len(tool_calls)
          /\ Malformed(tool_calls[k].arguments)
          /\ tool_calls[k].name \in available_functions
          /\ invoked = [i \in 1..(k - 1) |-> tool_calls[i].id]
          /\ Len(tool_usage_log) = k - 1
          /\ result = ErrorResult(exc)
          /\ ModelCalls = 1

C22_Witness ==
    /\ exc = ErrJsonDecode
    /\ k = 1
    /\ Len(tool_calls) = 2
    /\ tool_calls[2].name = "get_customers"
    /\ tool_calls[2].arguments = "{}"
    /\ invoked = <<>>

\* C23: handle_tool_calls only appends: a step of it leaves every message
\* already in the conversation and every entry already in the usage log where
\* and as it was, what it adds to the conversation is a tool message, and
\* available_functions stays as it is.
C23_DispatcherOnlyAppends ==
    [][pc = "dispatch" =>
          /\ IsPrefix(conversation, conversation')
          /\ IsPrefix(tool_usage_log, tool_usage_log')
          /\ Len(conversation') <= Len(conversation) + 1
          /\ Len(tool_usage_log') - Len(tool_usage_log) = Len(conversation') - Len(conversation)
          /\ \A i \in (Len(conversation) + 1)..Len(conversation') : conversation'[i].role = "tool"
          /\ registry' = registry
      ]_vars

C23_Witness ==
    /\ pc = "dispatch"
    /\ k = 2
    /\ Len(conversation) = Len(entry) + 1
    /\ conversation[Len(conversation)].role = "tool"
    /\ Len(tool_usage_log) = 1

\* the summaries the code can write for the shapes of AnyValue
Summaries ==
    {QueryExecuted, DataRetrieved, DataRetrievedSuccessfully}
    \cup {<<"Found", t, "records">> : t \in {Num(3), NotNumber}}
    \cup {<<"Retrieved", Sized(n), Label(key)>> : n \in 0..2, key \in {"invoices", "customers"}}
    \cup {<<"Retrieved", Sized(n), "of", Num(3), Label(key), "(limited)">> :
            n \in 0..2, key \in {"invoices", "customers"}}

\* C24: summarising a result never fails a dispatch: whenever a tool is invoked
\* and returns, whatever the value (text that is not JSON, JSON that is not an
\* object, an object whose fields have unexpected types), the dispatcher
\* appends a usage entry with a result_summary and status success and appends
\* the tool message of the request, and no exception comes of it.
C24_SummaryNeverFailsDispatch ==
    [][(pc = "dispatch" /\ invoked' # invoked /\ ~ToolFailed') =>
          /\ exc' = NoExc
          /\ Len(tool_usage_log') = Len(tool_usage_log) + 1
          /\ tool_usage_log'[Len(tool_usage_log')].status = "success"
          /\ tool_usage_log'[Len(tool_usage_log')].tool_name = tool_calls[k].name
          /\ tool_usage_log'[Len(tool_usage_log')].result_summary \in Summaries
          /\ Len(conversation') = Len(conversation) + 1
          /\ conversation'[Len(conversation')].role = "tool"
          /\ conversation'[Len(conversation')].tool_call_id = tool_calls[k].id
          /\ pc' \in {"dispatch", "trim2"}
      ]_vars

C24_Witness ==
    /\ Done
    /\ ~Failed
    /\ Len(tool_calls) = 2
    /\ result.tool_usage[1].tool_name = "list_customers"
    /\ result.tool_usage[1].result_summary = QueryExecuted
    /\ result.tool_usage[2].result_summary = DataRetrieved

\* C25: get_model_settings gives the stored model and the stored limit when
\* they are set, 'gpt-3.5-turbo' for a model that is not set and 8000 for a
\* limit that is not set, each on its own; and the trimmer called without a
\* limit trims to that limit, called with one to the one it was given.
C25_SettingsDefaults ==
    /\ [](/\ get_model_settings(settings).model =
                IF settings.model # "" THEN settings.model ELSE "gpt-3.5-turbo"
          /\ get_model_settings(settings).max_tokens =
                IF settings.max_tokens # 0 THEN settings.max_tokens ELSE 8000)
    /\ [][pc = "trim_enter" =>
             token_limit' = IF token_limit # NoTokenLimit THEN token_limit
                            ELSE IF settings.max_tokens # 0 THEN settings.max_tokens
                            ELSE 8000
         ]_vars

C25_Witness ==
    /\ pc = "returned"
    /\ settings.model = "gpt-4o"
    /\ settings.max_tokens = 0
    /\ token_limit = 8000
    /\ Len(conversation) = 2

\* C26: no tool_usage list that ask_openai_question returns holds an entry
\* with status error: the log only ever holds entries of tools that were
\* invoked and returned, and an error result carries an empty tool_usage.
C26_NoErrorEntriesReturned ==
    /\ \A i \in 1..Len(tool_usage_log) : tool_usage_log[i].status = "success"
    /\ \A i \in 1..Len(result.tool_usage) : result.tool_usage[i].status = "success"
    /\ Len(tool_usage_log) <= Len(invoked)
    /\ \A i \in 1..Len(tool_usage_log) :
          invoked[i] = tool_calls[i].id /\ tool_usage_log[i].tool_name = tool_calls[i].name
    /\ ToolFailed => Len(tool_usage_log) = Len(invoked) - 1
    /\ result.kind = "error" => result.tool_usage = <<>>
    /\ (Done /\ Failed) => result.kind = "error"

C26_Witness ==
    /\ Done
    /\ ToolFailed
    /\ Len(invoked) = 2
    /\ Len(tool_usage_log) = 1
    /\ result.kind = "error"

\* the call ended in the dispatcher
DispatchFailed == Done /\ Failed /\ tool_calls # NoToolCalls /\ exc # ErrModelClient

\* C27: the batch is not validated up front. When request k fails (unknown
\* name, undecodable arguments, or the tool raising), it is request k that the
\* error is about, the tools of the requests before it were invoked, the
\* conversation is the one the dispatcher was entered with (ending in the
\* assistant message) followed by the k-1 tool messages of those requests,
\* and the result reports tool_usage = [].
C27_NoUpFrontValidation ==
    DispatchFailed =>
        /\ k \in 1..Len(tool_calls)
        /\ \/ /\ exc = ErrFunctionNotFound(tool_calls[k].name)
              /\ tool_calls[k].name \notin available_functions
           \/ /\ exc = ErrJsonDecode
              /\ Malformed(tool_calls[k].arguments)
           \/ exc = ErrTool(tool_calls[k].name)
        /\ \A i \in 1..(k - 1) : invoked[i] = tool_calls[i].id
        /\ Len(invoked) \in {k - 1, k}
        /\ entry[Len(entry)].role = "assistant"
        /\ entry[Len(entry)].tool_calls = tool_calls
        /\ IsPrefix(entry, conversation)
        /\ Len(conversation) = Len(entry) + k - 1
        /\ \A i \in 1..(k - 1) :
              /\ conversation[Len(entry) + i].role = "tool"
              /\ conversation[Len(entry) + i].tool_call_id = tool_calls[i].id
        /\ Len(tool_usage_log) = k - 1
        /\ result.tool_usage = <<>>

C27_Witness ==
    /\ DispatchFailed
    /\ exc = ErrJsonDecode
    /\ k = 2
    /\ invoked = <<CallId(1)>>
    /\ Len(conversation) = Len(entry) + 1
    /\ result.tool_usage = <<>>

\* ------------------------------------------------- more claims on the trimmer
\* C28: trimming is idempotent: when the trimmer has returned, calling it on
\* the conversation it returned, with the same limit, returns at once and
\* leaves that conversation as it is.
C28_TrimIdempotent ==
    pc \in {"trim_again", "returned_again"} => (conversation = entry /\ iters = 0)

C28_Witness ==
    /\ pc = "returned_again"
    /\ Len(given) = 3
    /\ Len(conversation) = 2
    /\ estimate_token_count(given) > token_limit

\* C29: the trimmer removes no more than needed: a conversation whose estimate
\* is within the limit when the trimmer is entered stays as it is, and when
\* k >= 1 messages are gone the conversation with only the first k-1 of them
\* removed was still over the limit.
C29_TrimRemovesNoMoreThanNeeded ==
    (InTrimmer \/ TrimReturned) =>
        LET removed == Len(entry) - Len(conversation) IN
        /\ estimate_token_count(entry) <= token_limit => conversation = entry
        /\ removed >= 1 =>
              /\ conversation = WithoutOldestNonSystem(entry, removed)
              /\ estimate_token_count(WithoutOldestNonSystem(entry, removed - 1)) > token_limit
              /\ Len(WithoutOldestNonSystem(entry, removed - 1)) > 1

C29_Witness ==
    /\ pc = "returned"
    /\ Len(entry) - Len(conversation) = 2
    /\ estimate_token_count(conversation) <= token_limit
    /\ estimate_token_count(conversation) > 0

\* ------------------------------------------------------- get_sales_invoices
FailureInGetSalesInvoices == ToolErrorLog(ErrInTool("get_sales_invoices"))

FailuresLogged(log) == {j \in 1..Len(log) : log[j] = FailureInGetSalesInvoices}

\* C30: a failure inside get_sales_invoices does not reach the dispatcher as
\* an exception: the tool logs it and returns an object with an error field,
\* no invoices and total_count 0, so the dispatcher records the call with
\* status success and the summary of an empty result, appends its tool
\* message, and goes on with the batch and the second model call.
C30_GetSalesInvoicesFailureIsAResult ==
    /\ [](exc # ErrTool("get_sales_invoices"))
    /\ [][FailuresLogged(logged') # FailuresLogged(logged) =>
             /\ pc = "dispatch"
             /\ tool_calls[k].name = "get_sales_invoices"
             /\ invoked' = Append(invoked, tool_calls[k].id)
             /\ exc' = NoExc
             /\ tool_usage_log' = Append(tool_usage_log,
                    [tool_name |-> "get_sales_invoices", parameters |-> "dict()",
                     result_summary |-> <<"Retrieved", Sized(0), "invoices">>,
                     status |-> "success"])
             /\ Len(conversation') = Len(conversation) + 1
             /\ conversation'[Len(conversation')].role = "tool"
             /\ conversation'[Len(conversation')].tool_call_id = tool_calls[k].id
             /\ k' = k + 1
             /\ pc' = IF k = Len(tool_calls) THEN "trim2" ELSE "dispatch"
         ]_vars

C30_Witness ==
    /\ Done
    /\ ~Failed
    /\ ModelCalls = 2
    /\ Len(tool_calls) = 2
    /\ logged = <<FailureInGetSalesInvoices>>
    /\ tool_calls[1].name = "get_sales_invoices"
    /\ tool_calls[2].name = "list_customers"
    /\ Len(result.tool_usage) = 2

====
